---- MODULE Spec2Model ----
(***************************************************************************)
(* A model of sort_photos.py: the date-resolution chain (EXIF -> sidecar   *)
(* JSON -> filename -> directory name -> mod-time), the router of main(),  *)
(* the placement step copy_or_convert_file and the os.walk loop of main(). *)
(*                                                                         *)
(* Text is modelled as sequences of one-character strings, so that         *)
(* lower(), splitext(), startswith(), str() and the regular expressions    *)
(* are computed character by character as the code computes them.          *)
(* A datetime is modelled by its calendar date <<year, month, day>>; the   *)
(* time of day plays no part in routing.  None is the empty tuple.         *)
(***************************************************************************)
EXTENDS Integers, Sequences, FiniteSets, TLC

VARIABLES
    pc,               \* "walk" | "files" | "done" | "aborted" | "call" | "ret"
    test_mode,        \* main's test_mode argument
    processed_count,  \* main's processed_count
    root,             \* the directory os.walk yielded last, as path segments
    dirNo,            \* how many directories os.walk has yielded
    seen,             \* the names of `root` the inner loop has taken
    created,          \* the bucket directories under output_root
    fs,               \* the files under output_root: <<bucket, name>> -> content
    last,             \* what the last loop iteration did with its file
    input,            \* the argument of a function called on its own
    output            \* the value that call returned

vars == <<pc, test_mode, processed_count, root, dirNo, seen, created, fs, last,
          input, output>>

(***************************************************************************)
(* Bounds of the model and constants of the program.                       *)
(***************************************************************************)
\* date.today().year: the clock of the machine the program runs on.
CurrentYear == 2026

\* The offset of local time from UTC in seconds (datetime.fromtimestamp
\* returns local time; datetime.utcfromtimestamp returns UTC).
TzOffsetSeconds == 0

\* File names of the filename extractor are built from at most this many
\* pieces of FilenamePieces.
MaxPieces == 3

\* Directories one walk yields, and media files one walk processes.
MaxDirs == 2

MaxFiles == 2

\* Directories a walk in limited-run mode yields.
MaxDirsCap == 102

MinYear == 2000

MAX_TEST_COUNT == 100

None == <<>>

(***************************************************************************)
(* Characters and strings.  A text is a sequence of characters, and the    *)
(* characters of the model are those of ASCII.  A character is a string of *)
(* length one; a control character a string cannot hold is written by its  *)
(* code point ("U+000B") and counts as one character.                      *)
(***************************************************************************)
DigitChars == <<"0","1","2","3","4","5","6","7","8","9">>

Digits == {DigitChars[i] : i \in 1..10}

DigitVal(c) == (CHOOSE i \in 1..10 : DigitChars[i] = c) - 1

UpperChars ==
    <<"A","B","C","D","E","F","G","H","I","J","K","L","M",
      "N","O","P","Q","R","S","T","U","V","W","X","Y","Z">>

LowerChars ==
    <<"a","b","c","d","e","f","g","h","i","j","k","l","m",
      "n","o","p","q","r","s","t","u","v","w","x","y","z">>

\* str.lower() on one ASCII character.
LowerChar(c) ==
    IF \E i \in 1..26 : UpperChars[i] = c
    THEN LowerChars[CHOOSE i \in 1..26 : UpperChars[i] = c]
    ELSE c

\* str.lower()
RECURSIVE Lower(_)
Lower(s) == IF Len(s) = 0 THEN <<>> ELSE <<LowerChar(Head(s))>> \o Lower(Tail(s))

\* str.isdigit(): every character a digit, and at least one character.
IsDigitStr(s) == Len(s) > 0 /\ \A i \in 1..Len(s) : s[i] \in Digits

\* str.startswith(p)
StartsWith(s, p) == Len(p) <= Len(s) /\ SubSeq(s, 1, Len(p)) = p

\* str.endswith(p)
EndsWith(s, p) == Len(p) <= Len(s) /\ SubSeq(s, Len(s) - Len(p) + 1, Len(s)) = p

\* `sub in s`
Contains(s, sub) ==
    \E i \in 1..(Len(s) - Len(sub) + 1) : SubSeq(s, i, i + Len(sub) - 1) = sub

\* int(s) of a two- or four-digit group of a regular expression match.
RECURSIVE ToInt(_)
ToInt(s) ==
    IF Len(s) = 0 THEN 0
    ELSE 10 * ToInt(SubSeq(s, 1, Len(s) - 1)) + DigitVal(s[Len(s)])

\* str(n) for n >= 0.
RECURSIVE Str(_)
Str(n) ==
    IF n < 10 THEN <<DigitChars[n + 1]>>
    ELSE Str(n \div 10) \o <<DigitChars[(n % 10) + 1]>>

\* os.path.splitext on a base name: the extension starts at the last dot,
\* unless only dots precede that dot.
SplitExt(name) ==
    LET dots == {i \in 1..Len(name) : name[i] = "."}
        dot  == IF dots = {} THEN 0 ELSE CHOOSE i \in dots : \A j \in dots : j <= i
    IN  IF dot > 0 /\ \E k \in 1..(dot - 1) : name[k] # "."
        THEN <<SubSeq(name, 1, dot - 1), SubSeq(name, dot, Len(name))>>
        ELSE <<name, <<>>>>

(***************************************************************************)
(* Calendar.                                                               *)
(***************************************************************************)
IsLeap(y) == (y % 4 = 0 /\ y % 100 # 0) \/ y % 400 = 0

DaysInMonth(y, m) ==
    IF m = 2 THEN (IF IsLeap(y) THEN 29 ELSE 28)
    ELSE IF m \in {4, 6, 9, 11} THEN 30 ELSE 31

\* datetime(year, month, day): the date, or ValueError (modelled as None,
\* which is what every caller's `except ValueError: pass` turns it into).
MakeDate(y, m, d) ==
    IF y >= 1 /\ y <= 9999 /\ m >= 1 /\ m <= 12 /\ d >= 1 /\ d <= DaysInMonth(y, m)
    THEN <<y, m, d>>
    ELSE None

\* The date of the day `days` days after 1970-01-01 (proleptic Gregorian).
CivilFromDays(days) ==
    LET z   == days + 719468
        era == z \div 146097
        doe == z - era * 146097
        yoe == (doe - doe \div 1460 + doe \div 36524 - doe \div 146096) \div 365
        doy == doe - (365 * yoe + yoe \div 4 - yoe \div 100)
        mp  == (5 * doy + 2) \div 153
        d   == doy - (153 * mp + 2) \div 5 + 1
        m   == IF mp < 10 THEN mp + 3 ELSE mp - 9
        y   == yoe + era * 400 + (IF m <= 2 THEN 1 ELSE 0)
    IN  <<y, m, d>>

\* int(s) \div k and int(s) % k of a decimal string, by long division, so
\* that no intermediate value leaves the 32-bit integers of TLC.
RECURSIVE DivMod(_, _)
DivMod(s, k) ==
    IF Len(s) = 0 THEN <<0, 0>>
    ELSE LET p == DivMod(SubSeq(s, 1, Len(s) - 1), k)
             r == p[2] * 10 + DigitVal(s[Len(s)])
         IN  <<p[1] * 10 + r \div k, r % k>>

\* The last day datetime can represent is 9999-12-31.
MaxEpochDay == 2932896

(***************************************************************************)
(* Year Validity Oracle.                                                   *)
(***************************************************************************)
current_year == CurrentYear

\* A plausible slip: the lower bound of the window is not checked.
is_reasonable_year_no_min(year) == year <= current_year

is_reasonable_year(year) == MinYear <= year /\ year <= current_year

(***************************************************************************)
(* Filename extractor.                                                     *)
(***************************************************************************)
\* datetime.utcfromtimestamp(int(s)) for seconds, (int(s) / 1000.0) for
\* milliseconds: the UTC date.
UtcDateOfSeconds(s) == CivilFromDays(DivMod(s, 86400)[1])

UtcDateOfMillis(s) == CivilFromDays(DivMod(s, 86400000)[1])

parse_epoch(epoch_str) ==
    IF ~IsDigitStr(epoch_str) THEN None
    ELSE IF Len(epoch_str) \in {9, 10}
         THEN LET dt == UtcDateOfSeconds(epoch_str)
              IN  IF is_reasonable_year(dt[1]) THEN dt ELSE None
    ELSE IF Len(epoch_str) = 13
         THEN LET dt == UtcDateOfMillis(epoch_str)
              IN  IF is_reasonable_year(dt[1]) THEN dt ELSE None
    ELSE None

Separators == {"-", "_"}

\* The match of (\d{4})[-_]?(\d{2})[-_]?(\d{2}) that starts at position i, as
\* its three groups, or None.  A separator is no digit, so the optional
\* separators leave the regular expression engine no choice.
StrictMatchAt(s, i) ==
    LET n  == Len(s)
        a  == i + 4
        b  == IF a <= n /\ s[a] \in Separators THEN a + 1 ELSE a
        c0 == b + 2
        c  == IF c0 <= n /\ s[c0] \in Separators THEN c0 + 1 ELSE c0
    IN  IF /\ c + 1 <= n
           /\ \A k \in i..(i + 3) : s[k] \in Digits
           /\ \A k \in b..(b + 1) : s[k] \in Digits
           /\ \A k \in c..(c + 1) : s[k] \in Digits
        THEN <<SubSeq(s, i, i + 3), SubSeq(s, b, b + 1), SubSeq(s, c, c + 1)>>
        ELSE None

\* re.search: the match at the leftmost position that has one.
RECURSIVE StrictSearch(_, _)
StrictSearch(s, i) ==
    IF i > Len(s) THEN None
    ELSE LET match == StrictMatchAt(s, i)
         IN  IF match # None THEN match ELSE StrictSearch(s, i + 1)

\* A plausible slip: the day is accepted up to 31 in every month.
DateOfGroupsLoose(g) ==
    LET year == ToInt(g[1])  month == ToInt(g[2])  day == ToInt(g[3])
    IN  IF is_reasonable_year(year) /\ 1 <= month /\ month <= 12 /\ 1 <= day /\ day <= 31
        THEN <<year, month, day>>
        ELSE None

\* The body of `if match:` in the two date-pattern strategies.
DateOfGroups(g) ==
    LET year == ToInt(g[1])  month == ToInt(g[2])  day == ToInt(g[3])
    IN  IF is_reasonable_year(year) /\ 1 <= month /\ month <= 12 /\ 1 <= day /\ day <= 31
        THEN MakeDate(year, month, day)
        ELSE None

parse_strict_filename_date(filename) ==
    LET match == StrictSearch(Lower(filename), 1)
    IN  IF match # None THEN DateOfGroups(match) ELSE None

\* (20[0-9]{2})(0[1-9]|1[0-2]) at position i: year and month groups, or None.
YearMonthAt(s, i) ==
    IF /\ i + 5 <= Len(s)
       /\ s[i] = "2" /\ s[i + 1] = "0"
       /\ s[i + 2] \in Digits /\ s[i + 3] \in Digits
       /\ \/ s[i + 4] = "0" /\ s[i + 5] \in (Digits \ {"0"})
          \/ s[i + 4] = "1" /\ s[i + 5] \in {"0", "1", "2"}
    THEN <<SubSeq(s, i, i + 3), SubSeq(s, i + 4, i + 5)>>
    ELSE None

\* (20[0-9]{2})(0[1-9]|1[0-2])([0-3][0-9]) at position i.
EightMatchAt(s, i) ==
    LET ym == YearMonthAt(s, i)
    IN  IF /\ ym # None
           /\ i + 7 <= Len(s)
           /\ s[i + 6] \in {"0", "1", "2", "3"}
           /\ s[i + 7] \in Digits
        THEN ym \o <<SubSeq(s, i + 6, i + 7)>>
        ELSE None

RECURSIVE EightSearch(_, _)
EightSearch(s, i) ==
    IF i > Len(s) THEN None
    ELSE LET match == EightMatchAt(s, i)
         IN  IF match # None THEN match ELSE EightSearch(s, i + 1)

RECURSIVE SixSearch(_, _)
SixSearch(s, i) ==
    IF i > Len(s) THEN None
    ELSE LET match == YearMonthAt(s, i)
         IN  IF match # None THEN match ELSE SixSearch(s, i + 1)

parse_additional_filename_date(filename) ==
    LET name_lower == Lower(filename)
        match_8 == EightSearch(name_lower, 1)
        dt_8    == IF match_8 # None THEN DateOfGroups(match_8) ELSE None
        match_6 == SixSearch(name_lower, 1)
        dt_6    == IF match_6 # None
                   THEN DateOfGroups(<<match_6[1], match_6[2], <<"0", "1">>>>)
                   ELSE None
    IN  IF dt_8 # None THEN dt_8 ELSE dt_6

known_prefixes ==
    << <<"i","m","g">>, <<"i","m","g","_">>, <<"i","m","a","g","e">>,
       <<"p","i","c","t","u","r","e">>, <<"p","h","o","t","o">> >>

\* The loop `for p in known_prefixes`: each prefix, in list order, is cut
\* from what the earlier ones left.
RECURSIVE StripPrefixes(_, _)
StripPrefixes(base, k) ==
    IF k > Len(known_prefixes) THEN base
    ELSE LET p == known_prefixes[k]
         IN  StripPrefixes(IF StartsWith(base, p)
                           THEN SubSeq(base, Len(p) + 1, Len(base))
                           ELSE base, k + 1)

parse_all_digits_any_prefix(filename) ==
    LET base_no_ext == StripPrefixes(SplitExt(Lower(filename))[1], 1)
    IN  IF ~IsDigitStr(base_no_ext) THEN None ELSE parse_epoch(base_no_ext)

parse_date_from_filename(filename) ==
    LET dt_strict == parse_strict_filename_date(filename)
        dt_extra  == parse_additional_filename_date(filename)
        dt_epoch  == parse_all_digits_any_prefix(filename)
    IN  IF dt_strict # None THEN dt_strict
        ELSE IF dt_extra # None THEN dt_extra
        ELSE dt_epoch

(***************************************************************************)
(* Embedded-metadata extractor.  The input is what Image.open and          *)
(* img.getexif() give for the file: `readable` (FALSE: Image.open or       *)
(* getexif raises), and the tags in iteration order, each with its name    *)
(* and what strptime(value, "%Y:%m:%d %H:%M:%S") makes of its value: a     *)
(* date, or None for a value strptime rejects.                             *)
(***************************************************************************)
DateTags == {"DateTimeOriginal", "DateTime"}

RECURSIVE ExifScan(_, _)
ExifScan(tags, k) ==
    IF k > Len(tags) THEN None
    ELSE IF tags[k].tag \in DateTags
         THEN IF tags[k].value # None /\ is_reasonable_year(tags[k].value[1])
              THEN tags[k].value
              ELSE None
    ELSE ExifScan(tags, k + 1)

get_exif_datetime(exif) ==
    IF ~exif.readable THEN None
    ELSE IF Len(exif.tags) = 0 THEN None
    ELSE ExifScan(exif.tags, 1)

(***************************************************************************)
(* Sidecar extractor.  A sidecar is what find_companion_json and json.load *)
(* give: `found`, `readable` (FALSE: open or json.load raises, or the      *)
(* document is no object, and then every path through the loop ends in     *)
(* None) and, for each of the three keys, an entry [kind, ts, items]:      *)
(*   "absent"     the key is not in data;                                  *)
(*   "scalar"     data[key] is null, a number or a boolean;                *)
(*   "text"       data[key] is the string ts;                              *)
(*   "list"       data[key] is a list whose string elements are items;     *)
(*   "nofield"    data[key] is an object without "timestamp";              *)
(*   "ts"         data[key]["timestamp"] is the string ts;                 *)
(*   "num"        data[key]["timestamp"] is a number, ts the decimal text  *)
(*                of its integer part (int() truncates a float, and gives  *)
(*                1 and 0 for true and false);                             *)
(*   "nonnumber"  data[key]["timestamp"] is null, a list or an object.     *)
(***************************************************************************)
json_keys == <<"photoTakenTime", "creationTime", "videoCreationTime">>

timestamp_field == <<"t","i","m","e","s","t","a","m","p">>

\* The characters of ASCII int() skips around a number: tab, line feed,
\* vertical tab, form feed, carriage return and space (not the separators
\* U+001C..U+001F, which str.strip() removes and int() rejects).
WhiteSpace == {" ", "\t", "\n", "U+000B", "\f", "\r"}

RECURSIVE StripLeft(_)
StripLeft(s) ==
    IF Len(s) > 0 /\ s[1] \in WhiteSpace THEN StripLeft(Tail(s)) ELSE s

RECURSIVE StripRight(_)
StripRight(s) ==
    IF Len(s) > 0 /\ s[Len(s)] \in WhiteSpace
    THEN StripRight(SubSeq(s, 1, Len(s) - 1))
    ELSE s

Strip(s) == StripRight(StripLeft(s))

\* Digits, with single underscores between digits.
IsDigitGroups(s) ==
    /\ Len(s) > 0
    /\ s[1] \in Digits
    /\ s[Len(s)] \in Digits
    /\ \A i \in 1..Len(s) : s[i] \in Digits \/ s[i] = "_"
    /\ \A i \in 1..(Len(s) - 1) : ~(s[i] = "_" /\ s[i + 1] = "_")

IsNoUnderscore(c) == c # "_"

RECURSIVE StripZeros(_)
StripZeros(s) ==
    IF Len(s) > 1 /\ s[1] = "0" THEN StripZeros(Tail(s)) ELSE s

\* int(ts_str) of a string: white space around it is dropped, one sign may
\* lead, underscores may separate digits; anything else is a ValueError
\* (ok = FALSE).  The number is its sign and its digits without leading
\* zeros.
int_of_str(ts_str) ==
    LET t    == Strip(ts_str)
        sign == Len(t) > 0 /\ t[1] \in {"+", "-"}
        body == IF sign THEN Tail(t) ELSE t
    IN  IF IsDigitGroups(body)
        THEN [ok |-> TRUE, neg |-> sign /\ t[1] = "-",
              digits |-> StripZeros(SelectSeq(body, IsNoUnderscore))]
        ELSE [ok |-> FALSE, neg |-> FALSE, digits |-> <<"0">>]

\* The first local day fromtimestamp gives is 0001-01-02: it also looks at
\* the time one day earlier, which must not lie before the year 1.
MinEpochDay == -719161

\* The most digits a number of seconds can have with its day still far
\* outside what datetime represents.
MaxSecondsDigits == 14

\* datetime.fromtimestamp(n): the local day of n seconds, counted from
\* 1970-01-01, or a ValueError/OverflowError/OSError (ok = FALSE) when the
\* day is outside the years 1..9999.
LocalDayOfSeconds(n) ==
    IF Len(n.digits) > MaxSecondsDigits THEN [ok |-> FALSE, day |-> 0]
    ELSE LET qr  == DivMod(n.digits, 86400)
             day == IF n.neg
                    THEN (TzOffsetSeconds - qr[2]) \div 86400 - qr[1]
                    ELSE qr[1] + (qr[2] + TzOffsetSeconds) \div 86400
         IN  [ok |-> MinEpochDay <= day /\ day <= MaxEpochDay, day |-> day]

\* What lines 128-130 give for one entry: the loop goes on to the next key
\* ("next"), an exception is raised ("raise"), or a date is built ("date").
EntryDate(e) ==
    IF e.kind \in {"absent", "nofield"} THEN [is |-> "next", dt |-> None]
    ELSE IF e.kind \in {"scalar", "nonnumber"} THEN [is |-> "raise", dt |-> None]
    ELSE IF e.kind = "text"
         THEN [is |-> IF Contains(e.ts, timestamp_field) THEN "raise" ELSE "next",
               dt |-> None]
    ELSE IF e.kind = "list"
         THEN [is |-> IF timestamp_field \in e.items THEN "raise" ELSE "next",
               dt |-> None]
    ELSE LET n == int_of_str(e.ts)
         IN  IF ~n.ok THEN [is |-> "raise", dt |-> None]
             ELSE LET d == LocalDayOfSeconds(n)
                  IN  IF ~d.ok THEN [is |-> "raise", dt |-> None]
                      ELSE [is |-> "date", dt |-> CivilFromDays(d.day)]

\* The loop over the keys from key k on.  Whatever is raised inside it is
\* caught by the `except Exception` around it, which ends the function
\* with None.
RECURSIVE JsonScan(_, _)
JsonScan(data, k) ==
    IF k > Len(json_keys) THEN None
    ELSE LET r == EntryDate(data[json_keys[k]])
         IN  IF r.is = "raise" THEN None
             ELSE IF r.is = "date" /\ is_reasonable_year(r.dt[1]) THEN r.dt
             ELSE JsonScan(data, k + 1)

parse_date_from_json(sidecar) ==
    IF ~sidecar.readable THEN None ELSE JsonScan(sidecar.data, 1)

(***************************************************************************)
(* Directory-name extractor.  A directory path is the sequence of its      *)
(* segments, which is what dir_path.split(os.sep) returns.                 *)
(***************************************************************************)
\* The match of (\d{1,2})[-_](\d{1,2})[-_](\d{4}) that starts at position i.
\* A one- or two-digit group must be followed by a separator, so it takes
\* two digits exactly when the second character is a digit.
DirMatchAt(s, i) ==
    LET n  == Len(s)
        l1 == IF i + 1 <= n /\ s[i + 1] \in Digits THEN 2 ELSE 1
        b  == i + l1 + 1
        l2 == IF b + 1 <= n /\ s[b + 1] \in Digits THEN 2 ELSE 1
        c  == b + l2 + 1
    IN  IF /\ c + 3 <= n
           /\ s[i] \in Digits
           /\ s[i + l1] \in Separators
           /\ s[b] \in Digits
           /\ s[b + l2] \in Separators
           /\ \A k \in c..(c + 3) : s[k] \in Digits
        THEN <<SubSeq(s, c, c + 3), SubSeq(s, i, i + l1 - 1), SubSeq(s, b, b + l2 - 1)>>
        ELSE None

RECURSIVE DirSearch(_, _)
DirSearch(s, i) ==
    IF i > Len(s) THEN None
    ELSE LET match == DirMatchAt(s, i)
         IN  IF match # None THEN match ELSE DirSearch(s, i + 1)

\* for part in reversed(parts), from part k down.
RECURSIVE DirScan(_, _)
DirScan(parts, k) ==
    IF k = 0 THEN None
    ELSE LET match == DirSearch(parts[k], 1)
             dt    == IF match # None THEN DateOfGroups(match) ELSE None
         IN  IF dt # None THEN dt ELSE DirScan(parts, k - 1)

parse_date_from_directory(dir_path) == DirScan(dir_path, Len(dir_path))

(***************************************************************************)
(* Date Resolver.  A file is its name, its directory and what the          *)
(* operating system and the libraries answer about it: exif, sidecar,      *)
(* mtime (whether os.path.getmtime raises, and the seconds it returns, as  *)
(* a sign and decimal digits: they may lie before 1970), content           *)
(* and io (what converting or copying it runs into).                       *)
(* The result records the extractors invoked, in order, the date returned  *)
(* and whether the call raised instead of returning.                       *)
(***************************************************************************)
\* datetime.fromtimestamp(mod_time)
MtimeDate(mtime) == CivilFromDays(LocalDayOfSeconds(mtime).day)

get_creation_datetime(f, dir_path) ==
    LET dt_exif == get_exif_datetime(f.exif)
        dt_json == IF f.sidecar.found THEN parse_date_from_json(f.sidecar) ELSE None
        dt_file == parse_date_from_filename(f.name)
        dt_dir  == parse_date_from_directory(dir_path)
    IN  IF dt_exif # None
        THEN [invoked |-> <<"exif">>, dt |-> dt_exif, raised |-> FALSE]
        ELSE IF dt_json # None
        THEN [invoked |-> <<"exif", "json">>, dt |-> dt_json, raised |-> FALSE]
        ELSE IF dt_file # None
        THEN [invoked |-> <<"exif", "json", "filename">>, dt |-> dt_file,
              raised |-> FALSE]
        ELSE IF dt_dir # None
        THEN [invoked |-> <<"exif", "json", "filename", "directory">>, dt |-> dt_dir,
              raised |-> FALSE]
        ELSE IF f.mtime.raises \/ ~LocalDayOfSeconds(f.mtime).ok
        THEN [invoked |-> <<"exif", "json", "filename", "directory", "mtime">>,
              dt |-> None, raised |-> TRUE]
        ELSE [invoked |-> <<"exif", "json", "filename", "directory", "mtime">>,
              dt |-> MtimeDate(f.mtime), raised |-> FALSE]

(***************************************************************************)
(* File Classifier & Router: the body of main's loop from the keyword test *)
(* to folder_name.                                                         *)
(***************************************************************************)
Snapchat == <<"S","n","a","p","c","h","a","t">>

Unknown == <<"U","n","k","n","o","w","n">>

keyword == <<"s","n","a","p","c","h","a","t">>

NotResolved == [invoked |-> <<>>, dt |-> None, raised |-> FALSE]

\* A plausible slip: the keyword is looked for in the name as written.
classify_case_sensitive(f, dir_path) ==
    IF Contains(f.name, keyword)
    THEN [keyword |-> TRUE, res |-> NotResolved, folder_name |-> Snapchat]
    ELSE LET res == get_creation_datetime(f, dir_path)
         IN  [keyword |-> FALSE, res |-> res,
              folder_name |-> IF res.raised THEN None
                              ELSE IF ~is_reasonable_year(res.dt[1]) THEN Unknown
                              ELSE Str(res.dt[1])]

\* folder_name is None when get_creation_datetime raised: no folder is chosen.
classify(f, dir_path) ==
    IF Contains(Lower(f.name), keyword)
    THEN [keyword |-> TRUE, res |-> NotResolved, folder_name |-> Snapchat]
    ELSE LET res == get_creation_datetime(f, dir_path)
         IN  [keyword |-> FALSE, res |-> res,
              folder_name |-> IF res.raised THEN None
                              ELSE IF ~is_reasonable_year(res.dt[1]) THEN Unknown
                              ELSE Str(res.dt[1])]

(***************************************************************************)
(* Format Normalizer.  A destination path is <<bucket, name>>; the files   *)
(* under output_root are a function from paths to contents.  A content is  *)
(* <<"copy", c>> (the bytes c of the source), <<"jpeg", c>> (c decoded and *)
(* encoded again) or <<"partial", c>> (the beginning of either).           *)
(*                                                                         *)
(* f.io is what the system does to the operation on the file:              *)
(*   "ok"      every step succeeds;                                        *)
(*   "read"    the source cannot be opened or decoded;                     *)
(*   "create"  the destination cannot be created (also: a library that     *)
(*             removes the file it created when the write fails);          *)
(*   "write"   the destination is created and the write fails part-way     *)
(*             (full disk, size limit, read error): a truncated file stays;*)
(*   "stat"    the bytes are written and copying the metadata fails, which *)
(*             only shutil.copy2 does: the whole file stays.               *)
(***************************************************************************)
dot_jpg == <<".","j","p","g">>

heic_exts == { <<".","h","e","i","c">>, <<".","h","e","i","f">> }

\* os.path.join(os.path.dirname(dest_path), base_name + ".jpg")
new_dest_path(dest_path) == <<dest_path[1], SplitExt(dest_path[2])[1] \o dot_jpg>>

Write(files, path, content) ==
    [p \in DOMAIN files \cup {path} |-> IF p = path THEN content ELSE files[p]]

\* The files after convert_heic_to_jpg (kind "jpeg") or shutil.copy2 (kind
\* "copy") is called on `path`, whether it succeeds or raises.
Attempt(files, path, f, kind) ==
    IF f.io \in {"read", "create"} THEN files
    ELSE IF f.io = "write" THEN Write(files, path, <<"partial", f.content>>)
    ELSE Write(files, path, <<kind, f.content>>)

\* convert_heic_to_jpg raises.
ConvertFails(f) == f.io \in {"read", "create", "write"}

\* shutil.copy2 raises.
CopyFails(f) == f.io # "ok"

\* A plausible slip: no look at the destination before the copy.
copy_or_convert_file_overwrite(files, f, dest_path) ==
    IF Lower(SplitExt(f.name)[2]) \in heic_exts
    THEN IF new_dest_path(dest_path) \in DOMAIN files
         THEN [fs |-> files, raised |-> FALSE, error |-> FALSE]
         ELSE [fs |-> Attempt(files, new_dest_path(dest_path), f, "jpeg"),
               raised |-> FALSE, error |-> ConvertFails(f)]
    ELSE [fs |-> Attempt(files, dest_path, f, "copy"),
          raised |-> CopyFails(f), error |-> CopyFails(f)]

\* A plausible slip: the converted image is saved under the destination's
\* own name.
copy_or_convert_file_keep_ext(files, f, dest_path) ==
    IF Lower(SplitExt(f.name)[2]) \in heic_exts
    THEN IF new_dest_path(dest_path) \in DOMAIN files
         THEN [fs |-> files, raised |-> FALSE, error |-> FALSE]
         ELSE [fs |-> Attempt(files, dest_path, f, "jpeg"),
               raised |-> FALSE, error |-> ConvertFails(f)]
    ELSE IF dest_path \in DOMAIN files
         THEN [fs |-> files, raised |-> FALSE, error |-> FALSE]
         ELSE [fs |-> Attempt(files, dest_path, f, "copy"),
               raised |-> CopyFails(f), error |-> CopyFails(f)]

\* The result: the files afterwards, whether the call raised (shutil.copy2
\* is not inside a try) and whether an error was reported (the debug line
\* of the except clause, or the exception).
copy_or_convert_file(files, f, dest_path) ==
    IF Lower(SplitExt(f.name)[2]) \in heic_exts
    THEN IF new_dest_path(dest_path) \in DOMAIN files
         THEN [fs |-> files, raised |-> FALSE, error |-> FALSE]
         ELSE [fs |-> Attempt(files, new_dest_path(dest_path), f, "jpeg"),
               raised |-> FALSE, error |-> ConvertFails(f)]
    ELSE IF dest_path \in DOMAIN files
         THEN [fs |-> files, raised |-> FALSE, error |-> FALSE]
         ELSE [fs |-> Attempt(files, dest_path, f, "copy"),
               raised |-> CopyFails(f), error |-> CopyFails(f)]

(***************************************************************************)
(* The functions called on their own: the caller's argument is `input`,    *)
(* the value returned is `output`, and pc tells which function returned.   *)
(* The variables of the walk keep their initial values.                    *)
(***************************************************************************)
NoFiles == [p \in {} |-> None]

NoLast == [done |-> FALSE]

WalkIdle ==
    /\ test_mode = FALSE
    /\ processed_count = 0
    /\ root = <<>>
    /\ dirNo = 0
    /\ seen = {}
    /\ created = {}
    /\ fs = NoFiles
    /\ last = NoLast

WalkUnchanged ==
    UNCHANGED <<test_mode, processed_count, root, dirNo, seen, created, fs, last>>

\* The pieces file names are built from: camera prefixes, epochs of 10, 9
\* and 13 digits, date groups, and an extension.
FilenamePieces ==
    { <<"I","M","G","_">>,
      <<"i","m","g">>,
      <<"i","m","a","g","e">>,
      <<"p","i","c","t","u","r","e">>,
      <<"p","h","o","t","o">>,
      <<"1","6","0","0","0","0","0","0","0","0">>,
      <<"9","9","9","9","9","9","9","9","9">>,
      <<"1","6","0","0","0","0","0","0","0","0","0","0","0">>,
      <<"2","0","2","0","-","0","2","-","1","7">>,
      <<"2","0","2","0","0","2","3","0">>,
      <<"1","2","3","4","_">>,
      <<".","j","p","g">> }

RECURSIVE Concats(_)
Concats(k) ==
    IF k = 0 THEN {<<>>}
    ELSE Concats(k - 1) \cup {p \o s : p \in FilenamePieces, s \in Concats(k - 1)}

Filenames == Concats(MaxPieces) \ {<<>>}

InitFilename ==
    /\ pc = "call"
    /\ input \in Filenames
    /\ output = None
    /\ WalkIdle

CallStrict ==
    /\ pc = "call"
    /\ output' = parse_strict_filename_date(input)
    /\ pc' = "parse_strict_filename_date"
    /\ UNCHANGED input
    /\ WalkUnchanged

CallAllDigits ==
    /\ pc = "call"
    /\ output' = parse_all_digits_any_prefix(input)
    /\ pc' = "parse_all_digits_any_prefix"
    /\ UNCHANGED input
    /\ WalkUnchanged

CallFilename ==
    /\ pc = "call"
    /\ output' = parse_date_from_filename(input)
    /\ pc' = "parse_date_from_filename"
    /\ UNCHANGED input
    /\ WalkUnchanged

NextFilename == CallStrict \/ CallAllDigits \/ CallFilename

SpecFilename == InitFilename /\ [][NextFilename]_vars

(***************************************************************************)
(* Claims about the filename extractor, under SpecFilename.                *)
(***************************************************************************)
\* The dates <<y, m, d>> written at position i of s as four digits, two
\* digits and two digits, each pair of groups with or without one separator
\* between them.
GroupsAt(s, i) ==
    { <<ToInt(SubSeq(s, i, i + 3)),
        ToInt(SubSeq(s, i + 4 + l[1], i + 5 + l[1])),
        ToInt(SubSeq(s, i + 6 + l[1] + l[2], i + 7 + l[1] + l[2]))>> :
      l \in { m \in {0, 1} \X {0, 1} :
                /\ i + 7 + m[1] + m[2] <= Len(s)
                /\ \A k \in i..(i + 3) : s[k] \in Digits
                /\ m[1] = 1 => s[i + 4] \in Separators
                /\ \A k \in (i + 4 + m[1])..(i + 5 + m[1]) : s[k] \in Digits
                /\ m[2] = 1 => s[i + 6 + m[1]] \in Separators
                /\ \A k \in (i + 6 + m[1] + m[2])..(i + 7 + m[1] + m[2]) :
                      s[k] \in Digits } }

GroupPositions(s) == {i \in 1..Len(s) : GroupsAt(s, i) # {}}

CalendarValid(t) ==
    /\ 2000 <= t[1] /\ t[1] <= CurrentYear
    /\ 1 <= t[2] /\ t[2] <= 12
    /\ 1 <= t[3] /\ t[3] <= DaysInMonth(t[1], t[2])

ValidGroupDates(s) ==
    UNION { {t \in GroupsAt(s, i) : CalendarValid(t)} : i \in GroupPositions(s) }

\* C10 as claimed: whenever the lower-cased filename holds, anywhere, a
\* 4-2-2 group that is a calendar-valid date of the window,
\* parse_strict_filename_date returns the date of such a group.
C10_AnyValidOccurrence ==
    (pc = "parse_strict_filename_date" /\ ValidGroupDates(Lower(input)) # {})
        => output \in ValidGroupDates(Lower(input))

\* C10 as amended: parse_strict_filename_date looks at the leftmost 4-2-2
\* group of the lower-cased filename only: it returns that group's date when
\* the group is a calendar-valid date of the window, and None otherwise (also
\* when a later group is valid, and when there is no group).
C10_LeftmostOccurrence ==
    pc = "parse_strict_filename_date" =>
        LET s   == Lower(input)
            pos == GroupPositions(s)
        IN  IF pos = {} THEN output = None
            ELSE LET i0 == CHOOSE i \in pos : \A j \in pos : i <= j
                     t  == CHOOSE t \in GroupsAt(s, i0) : TRUE
                 IN  output = (IF CalendarValid(t) THEN t ELSE None)

\* A name with two groups whose leftmost one was returned as a date.
C10_Witness ==
    /\ pc = "parse_strict_filename_date"
    /\ Cardinality(GroupPositions(Lower(input))) >= 2
    /\ output # None
    /\ Lower(input) # input

\* C9: a base name (extension removed, lower-cased) that is a known prefix,
\* or none, followed only by a number of 9, 10 or 13 digits whose epoch lies
\* in a year of the window, and for which strategies (i) and (ii) find no
\* date, gets that epoch's date from parse_date_from_filename.
C9_EpochAfterKnownPrefix ==
    pc = "parse_date_from_filename" =>
        \A k \in 0..Len(known_prefixes) :
            LET p    == IF k = 0 THEN <<>> ELSE known_prefixes[k]
                base == SplitExt(Lower(input))[1]
                num  == SubSeq(base, Len(p) + 1, Len(base))
                dt   == IF Len(num) = 13 THEN UtcDateOfMillis(num)
                        ELSE UtcDateOfSeconds(num)
            IN  ( /\ StartsWith(base, p)
                  /\ IsDigitStr(num)
                  /\ Len(num) \in {9, 10, 13}
                  /\ 2000 <= dt[1] /\ dt[1] <= CurrentYear
                  /\ parse_strict_filename_date(input) = None
                  /\ parse_additional_filename_date(input) = None )
                => output = dt

(***************************************************************************)
(* The sidecar extractor called on its own.                                *)
(***************************************************************************)
\* Timestamp strings: 2021-01-01, 1970-01-01, a time in year 10000
\* (fromtimestamp raises), a string that is no number (int raises), and
\* strings int() takes although they are not all digits: a negative number
\* (1969), the year 2021 with a sign, with white space, with underscores.
Timestamps ==
    { <<"1","6","0","9","4","5","9","2","0","0">>,
      <<"1","0","0">>,
      <<"2","5","3","4","0","2","3","0","0","8","0","0">>,
      <<"a","b","c">>,
      <<"-","1","0","0">>,
      <<"+","1","6","0","9","4","5","9","2","0","0">>,
      <<"U+000B"," ","1","6","0","9","4","5","9","2","0","0","\n">>,
      <<"1","_","6","0","9","_","4","5","9","_","2","0","0">> }

\* Timestamps given as numbers: 2021-01-01 and a day before the year 1.
NumberTimestamps ==
    { <<"1","6","0","9","4","5","9","2","0","0">>,
      <<"-","9","9","9","9","9","9","9","9","9","9","9">> }

Entry(kind, ts, items) == [kind |-> kind, ts |-> ts, items |-> items]

Entries ==
    {Entry("absent", <<>>, {}), Entry("nofield", <<>>, {}),
     Entry("scalar", <<>>, {}), Entry("nonnumber", <<>>, {}),
     Entry("text", timestamp_field, {}), Entry("text", <<"x">>, {}),
     Entry("list", <<>>, {timestamp_field}), Entry("list", <<>>, {<<"x">>})}
        \cup {Entry("ts", t, {}) : t \in Timestamps}
        \cup {Entry("num", t, {}) : t \in NumberTimestamps}

Records == [{json_keys[k] : k \in 1..Len(json_keys)} -> Entries]

Unreadable == [k \in {json_keys[i] : i \in 1..Len(json_keys)} |->
                  Entry("absent", <<>>, {})]

Sidecars ==
    {[found |-> TRUE, readable |-> TRUE, data |-> d] : d \in Records}
        \cup {[found |-> TRUE, readable |-> FALSE, data |-> Unreadable]}

InitJson ==
    /\ pc = "call"
    /\ input \in Sidecars
    /\ output = None
    /\ WalkIdle

CallJson ==
    /\ pc = "call"
    /\ output' = parse_date_from_json(input)
    /\ pc' = "parse_date_from_json"
    /\ UNCHANGED input
    /\ WalkUnchanged

NextJson == CallJson

SpecJson == InitJson /\ [][NextJson]_vars

\* The keys of a record that are present with a timestamp whose year lies
\* in the window.
KeysWithValidDate(data) ==
    { k \in 1..Len(json_keys) :
        LET r == EntryDate(data[json_keys[k]])
        IN  r.is = "date" /\ 2000 <= r.dt[1] /\ r.dt[1] <= CurrentYear }

\* C8: parse_date_from_json returns the date of the first key, in the order
\* photoTakenTime, creationTime, videoCreationTime, that is present with a
\* timestamp whose year lies in the window; an earlier key that yields no
\* valid date does not stop the later keys from being checked; the result
\* is absent only if no key yields a valid date.
C8_FirstValidKey ==
    (pc = "parse_date_from_json" /\ input.readable) =>
        LET ks == KeysWithValidDate(input.data)
        IN  IF ks = {} THEN output = None
            ELSE LET k == CHOOSE i \in ks : \A j \in ks : i <= j
                 IN  output = EntryDate(input.data[json_keys[k]]).dt

(***************************************************************************)
(* What the files of the model carry.                                      *)
(***************************************************************************)
NameKeyword == <<"S","n","a","p","C","h","a","t","-","2","0","2","1","0","1","0","2",".","m","p","4">>

NameDated == <<"2","0","2","1","0","1","0","2",".","j","p","g">>

NameHeic == <<"p","h","o","t","o",".","H","E","I","C">>

NameHeif == <<"a",".","h","e","i","f">>

NameJpg == <<"p","h","o","t","o",".","j","p","g">>

NameJson == <<"p","h","o","t","o",".","j","p","g",".","j","s","o","n">>

NameText == <<"n","o","t","e","s",".","t","x","t">>

ExifUnreadable == [readable |-> FALSE, tags |-> <<>>]

ExifNone == [readable |-> TRUE, tags |-> <<>>]

Exif2019 == [readable |-> TRUE, tags |-> <<[tag |-> "DateTime", value |-> <<2019, 6, 1>>]>>]

Exif1975 == [readable |-> TRUE, tags |-> <<[tag |-> "DateTime", value |-> <<1975, 6, 1>>]>>]

\* A date tag strptime rejects, ahead of one it accepts.
ExifMalformedFirst ==
    [readable |-> TRUE,
     tags |-> <<[tag |-> "Make", value |-> None],
                [tag |-> "DateTime", value |-> None],
                [tag |-> "DateTimeOriginal", value |-> <<2019, 6, 1>>]>>]

NoEntry == Entry("absent", <<>>, {})

SidecarOf(ts) ==
    [found |-> TRUE, readable |-> TRUE,
     data |-> [k \in {json_keys[i] : i \in 1..Len(json_keys)} |->
                  IF k = "photoTakenTime" THEN Entry("ts", ts, {}) ELSE NoEntry]]

SidecarNone == [found |-> FALSE, readable |-> FALSE, data |-> Unreadable]

SidecarUnreadable == [found |-> TRUE, readable |-> FALSE, data |-> Unreadable]

\* 2020-05-20
Sidecar2020 == SidecarOf(<<"1","5","9","0","0","0","0","0","0","0">>)

\* 1970-01-01
Sidecar1970 == SidecarOf(<<"1","0","0">>)

DirOther == << <<"T">>, <<"D","r","i","v","e">> >>

GooglePhotos == <<"G","o","o","g","l","e"," ","P","h","o","t","o","s">>

DirPlain == << <<"T">>, GooglePhotos >>

DirDated == << <<"T">>, GooglePhotos, <<"1","2","-","2","5","-","2","0","1","8">> >>

\* The deepest segment holds no valid date, an outer one does.
DirOuterDated == << <<"3","-","4","-","2","0","1","7">>, GooglePhotos, <<"9","9","-","9","9","-","2","0","1","8">> >>

MtimeOf(neg, digits) == [raises |-> FALSE, neg |-> neg, digits |-> digits]

\* 1975-01-01 00:00:00 UTC
Mtime1975 == MtimeOf(FALSE, <<"1","5","7","7","6","6","4","0","0">>)

\* 2022-04-15 05:20:00 UTC
Mtime2022 == MtimeOf(FALSE, <<"1","6","5","0","0","0","0","0","0","0">>)

\* 1969-01-01 00:00:00 UTC: a time before 1970, set with os.utime
Mtime1969 == MtimeOf(TRUE, <<"3","1","5","3","6","0","0","0">>)

\* A time in the year 10000, which a file system with 64-bit times holds:
\* fromtimestamp raises.
MtimeYear10000 == MtimeOf(FALSE, <<"2","5","3","4","0","2","3","0","0","8","0","0">>)

\* os.path.getmtime raises (the name is a dangling symbolic link, or the
\* file went away).
MtimeFails == [raises |-> TRUE, neg |-> FALSE, digits |-> <<"0">>]

MaxContents == 2

Contents == 1..MaxContents

(***************************************************************************)
(* The Date Resolver called on its own.                                    *)
(***************************************************************************)
ResolveFiles ==
    [name : {NameDated, NameJpg},
     exif : {ExifUnreadable, ExifNone, Exif2019, Exif1975, ExifMalformedFirst},
     sidecar : {SidecarNone, SidecarUnreadable, Sidecar2020, Sidecar1970},
     mtime : {Mtime1975, Mtime2022, Mtime1969, MtimeYear10000, MtimeFails},
     content : {1},
     io : {"ok"}]

ResolveDirs == {DirPlain, DirDated, DirOuterDated}

InitResolve ==
    /\ pc = "call"
    /\ input \in [f : ResolveFiles, dir : ResolveDirs]
    /\ output = None
    /\ WalkIdle

CallResolve ==
    /\ pc = "call"
    /\ output' = get_creation_datetime(input.f, input.dir)
    /\ pc' = "get_creation_datetime"
    /\ UNCHANGED input
    /\ WalkUnchanged

NextResolve == CallResolve

SpecResolve == InitResolve /\ [][NextResolve]_vars

\* The dates the four conditional extractors give for a file, in the order
\* of their priority.
Evidence(f, dir) ==
    << get_exif_datetime(f.exif),
       IF f.sidecar.found THEN parse_date_from_json(f.sidecar) ELSE None,
       parse_date_from_filename(f.name),
       parse_date_from_directory(dir) >>

FirstPresent(ev) ==
    LET ks == {k \in 1..Len(ev) : ev[k] # None}
    IN  IF ks = {} THEN None ELSE ev[CHOOSE k \in ks : \A j \in ks : k <= j]

\* C1: get_creation_datetime returns the result of the highest-priority
\* extractor that is present, in the order EXIF, sidecar, filename,
\* directory, mod-time, and it always returns a concrete date: never an
\* absence, never an error.
C1_HighestPriorityAlwaysADate ==
    pc = "get_creation_datetime" =>
        /\ ~output.raised
        /\ output.dt # None
        /\ LET first == FirstPresent(Evidence(input.f, input.dir))
           IN  IF first # None THEN output.dt = first
               ELSE output.dt = MtimeDate(input.f.mtime)

\* The part of C1 the code keeps: whenever the call returns, it returns the
\* date of the highest-priority source present.
ResolverPriorityWhenItReturns ==
    (pc = "get_creation_datetime" /\ ~output.raised) =>
        LET first == FirstPresent(Evidence(input.f, input.dir))
        IN  IF first # None THEN output.dt = first
            ELSE output.dt = MtimeDate(input.f.mtime)

(***************************************************************************)
(* Placement called on its own, any number of times, on one output tree.   *)
(* `input` holds the arguments of the last call and the files before it.   *)
(***************************************************************************)
IoOutcomes == {"ok", "read", "create", "write", "stat"}

PlaceNames == {NameHeic, NameJpg, NameHeif}

PlaceSources ==
    [name : PlaceNames, exif : {ExifNone}, sidecar : {SidecarNone},
     mtime : {Mtime2022}, content : Contents, io : IoOutcomes]

PlaceDests == {<<Str(2021), n>> : n \in {NameHeic, NameJpg}}

InitPlace ==
    /\ pc = "call"
    /\ input = None
    /\ output = None
    /\ test_mode = FALSE
    /\ processed_count = 0
    /\ root = <<>>
    /\ dirNo = 0
    /\ seen = {}
    /\ created = {}
    /\ fs = NoFiles
    /\ last = NoLast

CallPlace(f, dest_path) ==
    /\ pc \in {"call", "copy_or_convert_file"}
    /\ LET r == copy_or_convert_file(fs, f, dest_path)
       IN  /\ fs' = r.fs
           /\ output' = [raised |-> r.raised, error |-> r.error]
    /\ input' = [f |-> f, dest_path |-> dest_path, files |-> fs]
    /\ pc' = "copy_or_convert_file"
    /\ UNCHANGED <<test_mode, processed_count, root, dirNo, seen, created, last>>

NextPlace == \E f \in PlaceSources, d \in PlaceDests : CallPlace(f, d)

SpecPlace == InitPlace /\ [][NextPlace]_vars

\* The path placement is to write for a source name and an intended
\* destination: the destination with its extension replaced by .jpg for a
\* source whose extension is .heic or .heif in any case, the destination
\* itself otherwise.
IsHeicName(name) ==
    \E e \in heic_exts :
        /\ EndsWith(Lower(name), e)
        /\ \E k \in 1..(Len(name) - Len(e)) : name[k] # "."

EffectiveDest(name, dest_path) ==
    IF IsHeicName(name)
    THEN <<dest_path[1], SplitExt(dest_path[2])[1] \o <<".","j","p","g">> >>
    ELSE dest_path

\* The paths whose file a call created or changed.
Written(before, after) ==
    {p \in DOMAIN after : p \notin DOMAIN before \/ after[p] # before[p]}

\* C5: when the effective destination exists at the call, nothing is
\* written and no error is reported, whatever the source holds; every file
\* there before the call is there after it with the content it had.
C5_ExistingDestinationUntouched ==
    pc = "copy_or_convert_file" =>
        /\ \A p \in DOMAIN input.files : p \in DOMAIN fs /\ fs[p] = input.files[p]
        /\ EffectiveDest(input.f.name, input.dest_path) \in DOMAIN input.files
              => /\ fs = input.files
                 /\ ~output.error
                 /\ ~output.raised

\* A second source, readable and with other content, placed on a path that
\* an earlier placement had filled.
C5_Witness ==
    /\ pc = "copy_or_convert_file"
    /\ input.f.io = "ok"
    /\ LET eff == EffectiveDest(input.f.name, input.dest_path)
       IN  /\ eff \in DOMAIN input.files
           /\ input.files[eff][2] # input.f.content
           /\ fs[eff] = input.files[eff]

\* C6: a .heic/.heif source writes at most the destination with its
\* extension replaced by .jpg, never the destination itself, and nothing
\* when that .jpg exists; any other source writes at most the destination.
C6_OnlyTheEffectivePathIsWritten ==
    pc = "copy_or_convert_file" =>
        LET eff == EffectiveDest(input.f.name, input.dest_path)
            wr  == Written(input.files, fs)
        IN  /\ wr \subseteq {eff}
            /\ IsHeicName(input.f.name) =>
                  /\ EndsWith(eff[2], <<".","j","p","g">>)
                  /\ Len(eff[2]) = Len(SplitExt(input.dest_path[2])[1]) + 4
                  /\ eff \in DOMAIN input.files => wr = {}
            /\ ~IsHeicName(input.f.name) => eff = input.dest_path

\* A .HEIC source converted to the .jpg path while its destination's own
\* name stays unwritten.
C6_Witness ==
    /\ pc = "copy_or_convert_file"
    /\ IsHeicName(input.f.name)
    /\ input.dest_path[2] = NameHeic
    /\ Written(input.files, fs) = {<<input.dest_path[1], NameJpg>>}
    /\ fs[<<input.dest_path[1], NameJpg>>] = <<"jpeg", input.f.content>>

(***************************************************************************)
(* main(): the walk.  os.walk yields directories one by one (WalkNext); a  *)
(* directory without "Google Photos" in its path is passed over; the inner *)
(* loop takes the names of the directory one by one, each name once        *)
(* (SkipFile, ProcessFile), and returns to os.walk (FilesEnd); the walk    *)
(* ends when os.walk has no directory left (WalkEnd).                      *)
(***************************************************************************)
media_extensions ==
    { <<".","j","p","g">>,
      <<".","j","p","e","g">>,
      <<".","p","n","g">>,
      <<".","g","i","f">>,
      <<".","h","e","i","c">>,
      <<".","h","e","i","f">>,
      <<".","b","m","p">>,
      <<".","w","e","b","p">>,
      <<".","t","i","f","f">>,
      <<".","t","i","f">>,
      <<".","m","p","4">>,
      <<".","m","o","v">>,
      <<".","m","4","v">>,
      <<".","a","v","i">>,
      <<".","w","m","v">>,
      <<".","f","l","v">>,
      <<".","m","k","v">>,
      <<".","w","e","b","m">> }

dot_json == <<".","j","s","o","n">>

is_media_file(filename) == Lower(SplitExt(filename)[2]) \in media_extensions

\* `"Google Photos" in root`: the literal holds no separator, so it lies in
\* the path exactly when it lies in one segment.
InScope(dir_path) == \E k \in 1..Len(dir_path) : Contains(dir_path[k], GooglePhotos)

Init ==
    /\ pc = "walk"
    /\ test_mode \in BOOLEAN
    /\ processed_count = 0
    /\ root = <<>>
    /\ dirNo = 0
    /\ seen = {}
    /\ created = {}
    /\ fs = NoFiles
    /\ last = NoLast
    /\ input = None
    /\ output = None

WalkNext(d, maxDirs) ==
    /\ pc = "walk"
    /\ dirNo < maxDirs
    /\ root' = d
    /\ dirNo' = dirNo + 1
    /\ seen' = {}
    /\ pc' = IF InScope(d) THEN "files" ELSE "walk"
    /\ UNCHANGED <<test_mode, processed_count, created, fs, last, input, output>>

WalkEnd ==
    /\ pc = "walk"
    /\ pc' = "done"
    /\ UNCHANGED <<test_mode, processed_count, root, dirNo, seen, created, fs, last,
                   input, output>>

FilesEnd ==
    /\ pc = "files"
    /\ pc' = "walk"
    /\ UNCHANGED <<test_mode, processed_count, root, dirNo, seen, created, fs, last,
                   input, output>>

\* os.walk lists the names of a directory in an order the system chooses,
\* each name once: the inner loop takes any name it has not taken yet.
\* A sidecar, or a file that is no media file: `continue`.
SkipFile(name) ==
    /\ pc = "files"
    /\ name \notin seen
    /\ EndsWith(Lower(name), dot_json) \/ ~is_media_file(name)
    /\ seen' = seen \cup {name}
    /\ UNCHANGED <<pc, test_mode, processed_count, root, dirNo, created, fs, last,
                   input, output>>

\* What the system answers about a file, apart from its name.
FileOf(name, a) ==
    [name |-> name, exif |-> a.exif, sidecar |-> a.sidecar, mtime |-> a.mtime,
     content |-> a.content, io |-> a.io]

\* A qualifying file: the cap test, the router, makedirs, placement, count.
\* An exception of get_creation_datetime or of copy_or_convert_file leaves
\* main ("aborted").
ProcessFile(name, answers, maxFiles) ==
    /\ pc = "files"
    /\ processed_count < maxFiles \/ (test_mode /\ processed_count >= MAX_TEST_COUNT)
    /\ name \notin seen
    /\ ~EndsWith(Lower(name), dot_json)
    /\ is_media_file(name)
    /\ seen' = seen \cup {name}
    /\ IF test_mode /\ processed_count >= MAX_TEST_COUNT
       THEN /\ pc' = "done"
            /\ UNCHANGED <<processed_count, created, fs, last>>
       ELSE \E a \in answers :
            \E f \in {FileOf(name, a)} :
            \E cls \in {classify(f, root)} :
                IF cls.res.raised
                THEN /\ pc' = "aborted"
                     /\ last' = [done |-> TRUE, f |-> f, cls |-> cls,
                                 placed |-> FALSE, error |-> FALSE]
                     /\ UNCHANGED <<processed_count, created, fs>>
                ELSE \E r \in {copy_or_convert_file(fs, f, <<cls.folder_name, f.name>>)} :
                         /\ created' = created \cup {cls.folder_name}
                         /\ fs' = r.fs
                         /\ last' = [done |-> TRUE, f |-> f, cls |-> cls,
                                     placed |-> ~r.raised, error |-> r.error]
                         /\ pc' = IF r.raised THEN "aborted" ELSE "files"
                         /\ processed_count' =
                               IF r.raised THEN processed_count ELSE processed_count + 1
    /\ UNCHANGED <<test_mode, root, dirNo, input, output>>

MainDirs == {DirOther, DirPlain, DirDated}

MainNames == {NameKeyword, NameDated, NameJpg}

Answer(exif, sidecar, mtime, io) ==
    [exif |-> exif, sidecar |-> sidecar, mtime |-> mtime, content |-> 1, io |-> io]

\* What the system answers about a file: which evidence it carries, its
\* modification time, and what placing it runs into.
MainAnswers ==
    {Answer(ExifNone, SidecarNone, Mtime2022, "ok"),
     Answer(Exif2019, SidecarNone, Mtime2022, "ok"),
     Answer(ExifNone, Sidecar2020, Mtime2022, "ok"),
     Answer(ExifNone, SidecarNone, Mtime1975, "ok"),
     Answer(ExifNone, SidecarNone, Mtime1969, "ok"),
     Answer(ExifNone, SidecarNone, MtimeFails, "ok"),
     Answer(ExifNone, SidecarNone, Mtime2022, "read"),
     Answer(ExifNone, SidecarNone, Mtime2022, "write"),
     Answer(ExifNone, SidecarNone, Mtime2022, "stat")}

SkipNames == {NameJson, NameText}

Next ==
    \/ \E d \in MainDirs : WalkNext(d, MaxDirs)
    \/ WalkEnd
    \/ FilesEnd
    \/ \E n \in SkipNames : SkipFile(n)
    \/ \E n \in MainNames : ProcessFile(n, MainAnswers, MaxFiles)

Spec == Init /\ [][Next]_vars

(***************************************************************************)
(* Router claims, on the walk.  `last` is the qualifying file the loop    *)
(* handled last: the file, what the router decided, whether it was placed. *)
(***************************************************************************)

\* C2: a qualifying file whose lower-cased name contains "snapchat" gets
\* the Snapchat bucket and no extractor or resolver step runs for it,
\* whatever date evidence it carries; when placement succeeds the file is
\* under Snapchat.
C2_KeywordShortCircuit ==
    (last.done /\ Contains(Lower(last.f.name), keyword)) =>
        /\ last.cls.folder_name = Snapchat
        /\ last.cls.res.invoked = <<>>
        /\ ~last.cls.res.raised
        /\ Snapchat \in created
        /\ last.placed => <<Snapchat, last.f.name>> \in DOMAIN fs

\* C2 witness: a file named SnapChat-20210102.mp4 with an EXIF date of
\* 2019 and a date in its name was placed under Snapchat.
C2_Witness ==
    /\ last.done
    /\ last.f.name = NameKeyword
    /\ last.f.exif = Exif2019
    /\ parse_date_from_filename(last.f.name) # None
    /\ last.placed
    /\ last.cls.folder_name = Snapchat
    /\ <<Snapchat, NameKeyword>> \in DOMAIN fs

YearBuckets == {Str(y) : y \in MinYear..CurrentYear}

\* C3: for a non-keyword file whose date was resolved, the bucket is the
\* four-digit string of the year exactly when 2000 <= year <= current
\* year, and Unknown otherwise; every bucket directory created, and every
\* bucket a file lies in, is Snapchat, Unknown or a year string of the
\* window.
C3_BucketIsYearInWindowElseUnknown ==
    /\ (last.done /\ ~Contains(Lower(last.f.name), keyword) /\ ~last.cls.res.raised) =>
          LET year   == last.cls.res.dt[1]
              bucket == last.cls.folder_name
          IN  /\ (MinYear <= year /\ year <= CurrentYear) <=>
                     (Len(bucket) = 4 /\ IsDigitStr(bucket) /\ ToInt(bucket) = year)
              /\ ~(MinYear <= year /\ year <= CurrentYear) <=> (bucket = Unknown)
    /\ created \subseteq ({Snapchat, Unknown} \cup YearBuckets)
    /\ \A p \in DOMAIN fs : p[1] \in created

\* C3 witness: a file with no date evidence and a modification time in
\* 1975 went to Unknown, and another run state holds a year bucket.
C3_Witness ==
    /\ last.done
    /\ last.f.name = NameJpg
    /\ last.cls.res.dt # None
    /\ last.cls.res.dt[1] = 1975
    /\ last.cls.folder_name = Unknown
    /\ last.placed
    /\ Unknown \in created

\* C4 (as the specification states it): no failure raised while gathering
\* evidence for a file or while placing it ends the run.
C4_NoPerFileFailureAbortsRun == pc # "aborted"

(***************************************************************************)
(* The walk in test mode with enough directories to reach the cap.  Each   *)
(* directory holds at most one qualifying file and one sidecar.            *)
(***************************************************************************)
CapDirs == {DirPlain, DirOther}

CapNames == {NameKeyword}

CapSkipNames == {NameJson}

CapAnswers == {Answer(ExifNone, SidecarNone, Mtime2022, "ok")}

InitCap ==
    /\ Init
    /\ test_mode = TRUE

NextCap ==
    \/ \E d \in CapDirs : WalkNext(d, MaxDirsCap)
    \/ WalkEnd
    \/ FilesEnd
    \/ \E n \in CapSkipNames : SkipFile(n)
    \/ \E n \in CapNames : ProcessFile(n, CapAnswers, MAX_TEST_COUNT)

SpecCap == InitCap /\ [][NextCap]_vars

\* C7 (as the specification states it): in test mode, once 100 qualifying
\* files have been processed the run stops; no further directory is
\* visited and no further name of a file list is taken, except by the step
\* that ends the run.
C7_NoTraversalAfterCap ==
    [][(test_mode /\ processed_count >= MAX_TEST_COUNT) =>
          \/ pc' = "done"
          \/ (dirNo' = dirNo /\ seen' = seen)]_vars

====
